---- MODULE Spec2Model ----
(***************************************************************************)
(* LoraSense payload decoding (libs/common/decoder.py).                    *)
(*                                                                         *)
(* A decode_payload call resolves a decoder class through DecoderFactory,  *)
(* constructs an instance (pos, bindata) and runs its decode method.  The  *)
(* Barani decoder makes eleven bitShift calls; each one is a step of the   *)
(* model, so that calls of several threads can interleave.                 *)
(*                                                                         *)
(* Numbers: Python floats are modelled as exact decimal fixed-point        *)
(* integers counted in 1/Unit.  Strings that the code inspects character   *)
(* by character (config_str) are sequences of character codes; bindata is  *)
(* a sequence of the digits 0 and 1.                                       *)
(*                                                                         *)
(* Further parts: the uplink handler with get_db_connection and the two    *)
(* tables it writes (SpecUplink), the dashboard login (SpecLogin), the     *)
(* module-level Decoder of services/uplink/src/app.py (SpecLegacySeq,      *)
(* SpecLegacyConc), BaraniEncoder of scripts/simulate_sensor.py followed   *)
(* by a decode (SpecEncode), and precisionRound on its own (SpecRound).    *)
(***************************************************************************)
EXTENDS Integers, Sequences, FiniteSets, TLC

\* ------------------------------------------------------------------ bounds
\* longest payload drawn, in bytes
MaxLen == 12
\* number of threads that may run decode_payload at the same time
NumThreads == 2
\* number of byte patterns payloads are cut from
NumPatterns == 16
\* largest magnitude of a number handed to precisionRound alone, in 1/Unit
RoundMax == 300

Threads == 1..NumThreads

\* ------------------------------------------------------- fixed-point floats
\* resolution of the fixed-point representation: a float v is the integer v*Unit
Unit == 100

Min(a, b) == IF a < b THEN a ELSE b

RECURSIVE Pow10(_)
Pow10(n) == IF n = 0 THEN 1 ELSE 10 * Pow10(n - 1)

\* Python round(x) of the rational n/d (d > 0): nearest integer, ties to even
round(n, d) ==
    LET q == n \div d
        r == n % d
    IN  IF 2 * r < d THEN q
        ELSE IF 2 * r > d THEN q + 1
        ELSE IF q % 2 = 0 THEN q ELSE q + 1

\* precisionRound: factor = 10 ** precision; round(number * factor) / factor
precisionRound(number, precision) ==
    LET factor == Pow10(precision)
    IN  (round(number * factor, Unit) * Unit) \div factor

\* ------------------------------------------------------------ bit strings
\* bin(num)[2:] : the binary digits of num, most significant first
RECURSIVE bin(_)
bin(num) == IF num < 2 THEN <<num>> ELSE bin(num \div 2) \o <<num % 2>>

\* pad: "00000000" + s, last eight characters
pad(s) ==
    LET t == <<0, 0, 0, 0, 0, 0, 0, 0>> \o s
    IN  SubSeq(t, Len(t) - 7, Len(t))

\* mutant: bytes not padded to eight digits
dec2binNoPad(num) == bin(num)
dec2bin(num) == pad(bin(num))

\* int(s, 2) for a non-empty digit string
RECURSIVE bin2dec(_)
bin2dec(s) ==
    IF Len(s) = 0 THEN 0
    ELSE 2 * bin2dec(SubSeq(s, 1, Len(s) - 1)) + s[Len(s)]

\* int("", 2) raises ValueError
bin2decRaises(s) == Len(s) = 0

RECURSIVE data2bits(_)
data2bits(data) ==
    IF Len(data) = 0 THEN <<>>
    ELSE data2bits(SubSeq(data, 1, Len(data) - 1)) \o dec2bin(data[Len(data)])

\* Python slice s[a:b] for 0 <= a <= b: clamped to the string
Slice(s, a, b) == SubSeq(s, Min(a, Len(s)) + 1, Min(b, Len(s)))


\* ------------------------------------------------- BaraniDecoder.bitShift
\* mutant: bitShift without its length guard
bitShiftShortNever(p, bits, bd) == FALSE

\* the guard of bitShift: not enough bits left
bitShiftShort(p, bits, bd) == p + bits > Len(bd)

\* mutant: the read starts at the first bit of the byte the cursor is in
bitShiftSliceAligned(p, bits, bd) == Slice(bd, (p \div 8) * 8, (p \div 8) * 8 + bits)

\* the characters bitShift hands to bin2dec
bitShiftSlice(p, bits, bd) == Slice(bd, p, p + bits)

\* the value bitShift returns
bitShiftNum(p, bits, bd) ==
    IF bitShiftShort(p, bits, bd) THEN 0 ELSE bin2dec(bitShiftSlice(p, bits, bd))

\* mutant: the cursor advances on a short read too
bitShiftPosAlways(p, bits, bd) == p + bits

\* self.pos after bitShift
bitShiftPos(p, bits, bd) ==
    IF bitShiftShort(p, bits, bd) THEN p ELSE p + bits

\* bitShift raises when bin2dec does
bitShiftRaises(p, bits, bd) ==
    ~bitShiftShort(p, bits, bd) /\ bin2decRaises(bitShiftSlice(p, bits, bd))

\* --------------------------------------------------- BaraniDecoder.decode
\* mutant: the last field read nine bits wide
WidthsWide == <<2, 5, 11, 6, 6, 9, 14, 10, 9, 8, 9>>

\* the widths decode asks bitShift for, in call order
Widths == <<2, 5, 11, 6, 6, 9, 14, 10, 9, 8, 8>>

NumFields == Len(Widths)

\* one (key, value) item of a returned dict; a value is a number (num, in
\* 1/Unit) or a string (text)
Num(k, v) == [key |-> k, num |-> v, text |-> ""]
Text(k, s) == [key |-> k, num |-> 0, text |-> s]

TypeOf(raw) == raw * Unit
\* mutant: the battery voltage rounded to one decimal digit
BatteryOfOneDigit(raw) == precisionRound(raw * (Unit \div 20) + 3 * Unit, 1)
BatteryOf(raw) == precisionRound(raw * (Unit \div 20) + 3 * Unit, 2)
TemperatureOf(raw) == precisionRound(raw * (Unit \div 10) - 100 * Unit, 1)
\* mutant: the offset of T_min added instead of subtracted
T_minOfAbove(Temperature, raw) == precisionRound(Temperature + raw * (Unit \div 10), 1)
T_minOf(Temperature, raw) == precisionRound(Temperature - raw * (Unit \div 10), 1)
T_maxOf(Temperature, raw) == precisionRound(Temperature + raw * (Unit \div 10), 1)
HumidityOf(raw) == precisionRound(raw * (Unit \div 5), 1)
PressureOf(raw) == ((raw * 5 + 50000) * Unit) \div 100
IrradiationOf(raw) == raw * 2 * Unit
Irr_maxOf(Irradiation, raw) == Irradiation + raw * 2 * Unit
RainOf(raw) == precisionRound(raw * Unit, 1)
Rain_min_timeOf(raw) == precisionRound(raw * Unit, 1)

\* mutant: Irr_max left out of the dict
DecodedNoIrrMax(r) ==
    LET Temperature == TemperatureOf(r[3])
    IN  << Num("Type", TypeOf(r[1])),
           Num("Battery", BatteryOf(r[2])),
           Num("Temperature", Temperature),
           Num("T_min", T_minOf(Temperature, r[4])),
           Num("T_max", T_maxOf(Temperature, r[5])),
           Num("Humidity", HumidityOf(r[6])),
           Num("Pressure", PressureOf(r[7])),
           Num("Irradiation", IrradiationOf(r[8])),
           Num("Rain", RainOf(r[10])),
           Num("Rain_min_time", Rain_min_timeOf(r[11])) >>

\* the dict decode returns, given the eleven values bitShift returned
Decoded(r) ==
    LET Temperature == TemperatureOf(r[3])
        Irradiation == IrradiationOf(r[8])
    IN  << Num("Type", TypeOf(r[1])),
           Num("Battery", BatteryOf(r[2])),
           Num("Temperature", Temperature),
           Num("T_min", T_minOf(Temperature, r[4])),
           Num("T_max", T_maxOf(Temperature, r[5])),
           Num("Humidity", HumidityOf(r[6])),
           Num("Pressure", PressureOf(r[7])),
           Num("Irradiation", Irradiation),
           Num("Irr_max", Irr_maxOf(Irradiation, r[9])),
           Num("Rain", RainOf(r[10])),
           Num("Rain_min_time", Rain_min_timeOf(r[11])) >>

\* mutant: the length check lets a one-byte payload through
ExampleDecodePartial(payload) ==
    IF Len(payload) < 1
    THEN << Text("error", "Payload zu kurz") >>
    ELSE << Num("Temperature", (payload[1] - 40) * Unit),
            Num("Humidity", IF Len(payload) < 2 THEN 0 ELSE payload[2] * Unit),
            Text("Status", "Einfach dekodiert") >>

\* mutant: the temperature offset of 40 forgotten
ExampleDecodeNoOffset(payload) ==
    IF Len(payload) < 2
    THEN << Text("error", "Payload zu kurz") >>
    ELSE << Num("Temperature", payload[1] * Unit),
            Num("Humidity", payload[2] * Unit),
            Text("Status", "Einfach dekodiert") >>

\* mutant: the humidity taken from the last byte (payload_bytes[-1])
ExampleDecodeLastByte(payload) ==
    IF Len(payload) < 2
    THEN << Text("error", "Payload zu kurz") >>
    ELSE << Num("Temperature", (payload[1] - 40) * Unit),
            Num("Humidity", payload[Len(payload)] * Unit),
            Text("Status", "Einfach dekodiert") >>

\* -------------------------------------------- ExampleSensorDecoder.decode
ExampleDecode(payload) ==
    IF Len(payload) < 2
    THEN << Text("error", "Payload zu kurz") >>
    ELSE << Num("Temperature", (payload[1] - 40) * Unit),
            Num("Humidity", payload[2] * Unit),
            Text("Status", "Einfach dekodiert") >>

\* --------------------------------------------------------- DecoderFactory
\* config strings, as character codes
S_v1 == <<118, 49>>
S_barani == <<98, 97, 114, 97, 110, 105>>
S_simple == <<115, 105, 109, 112, 108, 101>>
S_V1 == <<86, 49>>
S_Simple == <<83, 105, 109, 112, 76, 69>>
S_BARANI == <<66, 65, 82, 65, 78, 73>>
S_unknown == <<120>>
S_empty == <<>>

\* mutant: the config string looked up as given
lowerNot(s) == s

\* str.lower() on ASCII
lower(s) == [i \in 1..Len(s) |-> IF s[i] \in 65..90 THEN s[i] + 32 ELSE s[i]]

\* DecoderFactory._decoders, the class attribute every call reads
VARIABLE decoders

\* the table _decoders is created with
DecodersTable ==
    (S_v1 :> "BaraniDecoder") @@ (S_barani :> "BaraniDecoder")
        @@ (S_simple :> "ExampleSensorDecoder")

\* mutant: the lookup registers the default class under an unknown key
\* (dict.setdefault)
decoders_after_setdefault(d, key, default) ==
    IF key \in DOMAIN d THEN d ELSE d @@ (key :> default)

\* _decoders after _decoders.get(key, default): dict.get does not insert
decoders_after_get(d, key, default) == d

\* mutant: the alias "barani" registered for the example decoder
decoders_getAliasWrong(key, default) ==
    IF key = S_v1 THEN "BaraniDecoder"
    ELSE IF key = S_barani THEN "ExampleSensorDecoder"
    ELSE IF key = S_simple THEN "ExampleSensorDecoder"
    ELSE default

\* _decoders.get(key, default)
decoders_get(key, default) ==
    IF key \in DOMAIN decoders THEN decoders[key] ELSE default

\* mutant: the example decoder as the default class
get_decoderDefaultExample(cfg) == decoders_get(lower(cfg), "ExampleSensorDecoder")

\* the class get_decoder instantiates
get_decoder(cfg) == decoders_get(lower(cfg), "BaraniDecoder")

\* ------------------------------------------------------------------ inputs
\* the sample uplink of tests/test_multi_sensor.py, base64 "XyxAArEz8AAAAP8="
GoldenBytes == <<95, 44, 64, 2, 177, 51, 240, 0, 0, 0, 255>>

\* byte i of pattern k
PatternByte(k, i) ==
    CASE k = 1 -> IF i <= Len(GoldenBytes) THEN GoldenBytes[i] ELSE 0
      [] k = 2 -> 0
      [] k = 3 -> 255
      [] k = 4 -> IF i = 1 THEN 65 ELSE IF i = 2 THEN 50 ELSE (37 * i) % 256
      [] k = 5 -> IF i % 2 = 1 THEN 170 ELSE 85
      [] OTHER -> ((31 * k + 7) * i + k * k) % 256

Prefix(k, n) == [i \in 1..n |-> PatternByte(k, i)]

Payloads == {Prefix(k, n) : k \in 1..NumPatterns, n \in 0..MaxLen}

ConfigStrs == {S_v1, S_barani, S_simple, S_V1, S_Simple, S_BARANI, S_unknown, S_empty}

\* arguments of successive calls
CallArgs ==
    {<<Prefix(k, n), c>> : k \in {1, 3}, n \in {1, 6, Len(GoldenBytes)},
                           c \in {S_v1, S_simple, S_unknown}}

\* arguments of concurrent calls
ConcArgs ==
    {<<Prefix(1, Len(GoldenBytes)), S_v1>>, <<Prefix(3, 6), S_unknown>>,
     <<Prefix(4, 2), S_simple>>}

\* ------------------------------------------------------------------- state
VARIABLES
    payload_bytes,  \* per call: the payload_bytes argument
    config_str,     \* per call: the config_str argument
    pc,             \* per call: "idle", "called", "decode", "done", "raised"
    decoder_class,  \* per call: the class get_decoder chose
    pos,            \* per decoder instance: self.pos
    bindata,        \* per decoder instance: self.bindata
    reads,          \* per call: the bitShift calls made so far
    result,         \* per call: the dict returned
    overlapped,     \* per call: it made a bitShift call while another thread
                    \* was between two of its own
    first           \* the arguments and result of the first call that returned

\* the module-level decoder of services/uplink/src/app.py
VARIABLES
    app_pos,            \* the global pos
    app_bindata,        \* the global bindata
    legacy_pc,          \* per invocation of Decoder: "idle", "called", "decode", "done"
    legacy_payload,     \* per invocation: the payload_bytes argument
    legacy_raws,        \* per invocation: the values bitShift returned so far
    legacy_result,      \* per invocation: the dict returned
    legacy_overlapped,  \* per invocation: another invocation took a step
                        \* between two of its own
    legacy_prev         \* the payload of the invocation that returned before
                        \* the present one was called, <<b>>, else <<>>

\* BaraniEncoder of scripts/simulate_sensor.py
VARIABLES
    enc_pc,         \* "idle", "add", "bytes", "done"
    enc_values,     \* the eleven integers to encode
    enc_k,          \* the add_value calls made so far
    enc_bits,       \* self.bits
    enc_bytes       \* what get_bytes returned

\* an application of precisionRound: number (in 1/Unit), precision, result
VARIABLE rounding

\* the uplink service (apps/uplink/src/uplink_app.py) and its database
VARIABLES
    up_pc,          \* uplink(): "idle", "received", "lookup", "decode",
                    \* "save_uplink", "save_data", "done"
    up_request,     \* the posted JSON: data and device id
    up_device,      \* uplink(): device
    up_config_str,  \* uplink(): config_str
    up_decoded,     \* uplink(): decoded
    up_response,    \* the HTTP response of uplink()
    uplinks,        \* table uplinks
    sensor_data,    \* table sensor_data
    db_pc,          \* get_db_connection(): "idle", "mysql", "sleep", "sqlite",
                    \* "returned"
    db_attempt,     \* get_db_connection(): attempt
    db_log,         \* the outcomes of the MariaDB connects of this call
    db_sleeps,      \* the time.sleep calls of this call
    db_conn         \* what get_db_connection returned: "mysql", "sqlite", "None"

\* the dashboard login (apps/dashboard/src/dashboard_app.py)
VARIABLES
    session,        \* the Flask session of the client
    login_request,  \* the last login request and what the database returned
    login_response  \* the response to it

decoder_vars == <<payload_bytes, config_str, pc, decoder_class, pos, bindata,
                  reads, result, overlapped, first, decoders>>

legacy_vars == <<app_pos, app_bindata, legacy_pc, legacy_payload, legacy_raws,
                 legacy_result, legacy_overlapped, legacy_prev>>

encoder_vars == <<enc_pc, enc_values, enc_k, enc_bits, enc_bytes>>

other_vars == <<legacy_vars, encoder_vars, rounding>>

uplink_vars == <<up_pc, up_request, up_device, up_config_str, up_decoded,
                 up_response, uplinks, sensor_data>>

db_vars == <<db_pc, db_attempt, db_log, db_sleeps, db_conn>>

login_vars == <<session, login_request, login_response>>

service_vars == <<uplink_vars, db_vars, login_vars>>

vars == <<decoder_vars, service_vars, other_vars>>

\* Python None for a device row and for a config string
NoDevice == [kind |-> "None", id |-> 0, config_null |-> TRUE, decoder_config |-> <<>>]
NoConfig == [none |-> TRUE, str |-> <<>>]
NoRequest == [data |-> [kind |-> "missing", bytes |-> <<>>], device_id |-> ""]
NoResponse == [code |-> 0, status |-> "", device_known |-> FALSE]
NoSession == [user_id |-> 0, username |-> "", is_admin |-> FALSE]
NoLogin == [username |-> "", password |-> "", variant |-> "",
            user |-> [kind |-> "None", id |-> 0, username |-> "",
                      password_hash |-> <<>>, is_admin |-> FALSE],
            before |-> NoSession]
NoLoginResponse == [code |-> 0, success |-> FALSE]

UplinkIdle ==
    /\ up_pc = "idle"
    /\ up_request = NoRequest
    /\ up_device = NoDevice
    /\ up_config_str = NoConfig
    /\ up_decoded = <<>>
    /\ up_response = NoResponse
    /\ uplinks = <<>>
    /\ sensor_data = <<>>

DbIdle ==
    /\ db_pc = "idle"
    /\ db_attempt = 0
    /\ db_log = <<>>
    /\ db_sleeps = 0
    /\ db_conn = ""

LoginIdle ==
    /\ session = NoSession
    /\ login_request = NoLogin
    /\ login_response = NoLoginResponse

\* mutant: one decoder instance shared by every call
SharedSelf(t) == 1

\* the decoder instance that the call of thread t works on: get_decoder
\* constructs a new one for every call
Self(t) == t

\* mutant: the position is kept in a class attribute that __init__ does not reset
StalePos(old) == old

\* BaraniDecoder.__init__: self.pos = 0
InitPos(old) == 0

\* another thread is between two of its bitShift calls
MidDecodeOther(t) ==
    \E u \in Threads \ {t} :
        pc[u] = "decode" /\ Len(reads[u]) > 0 /\ Len(reads[u]) < NumFields

\* the values bitShift returned to decode so far
Raws(t) == [i \in 1..Len(reads[t]) |-> reads[t][i].num]

LegacyIdle ==
    /\ app_pos = 0
    /\ app_bindata = <<>>
    /\ legacy_pc = [t \in Threads |-> "idle"]
    /\ legacy_payload = [t \in Threads |-> <<>>]
    /\ legacy_raws = [t \in Threads |-> <<>>]
    /\ legacy_result = [t \in Threads |-> <<>>]
    /\ legacy_overlapped = [t \in Threads |-> FALSE]
    /\ legacy_prev = <<>>

EncoderIdle ==
    /\ enc_pc = "idle"
    /\ enc_values = <<>>
    /\ enc_k = 0
    /\ enc_bits = <<>>
    /\ enc_bytes = <<>>

NoRounding == [number |-> 0, precision |-> 0, applied |-> FALSE, result |-> 0]

\* nothing but decode_payload and the services runs
OtherIdle == LegacyIdle /\ EncoderIdle /\ rounding = NoRounding

Idle ==
    /\ decoders = DecodersTable
    /\ decoder_class = [t \in Threads |-> "none"]
    /\ pos = [t \in Threads |-> 0]
    /\ bindata = [t \in Threads |-> <<>>]
    /\ reads = [t \in Threads |-> <<>>]
    /\ result = [t \in Threads |-> <<>>]
    /\ overlapped = [t \in Threads |-> FALSE]
    /\ first = <<>>

\* no call of decode_payload yet
DecoderIdle ==
    /\ payload_bytes = [t \in Threads |-> <<>>]
    /\ config_str = [t \in Threads |-> <<>>]
    /\ pc = [t \in Threads |-> "idle"]
    /\ Idle

\* no request yet
ServiceIdle == UplinkIdle /\ DbIdle /\ LoginIdle

InitIdle == DecoderIdle /\ ServiceIdle /\ OtherIdle

\* one decode_payload call on any payload and config string
Init ==
    /\ \E b \in Payloads : payload_bytes = [t \in Threads |-> IF t = 1 THEN b ELSE <<>>]
    /\ \E c \in ConfigStrs : config_str = [t \in Threads |-> IF t = 1 THEN c ELSE <<>>]
    /\ pc = [t \in Threads |-> IF t = 1 THEN "called" ELSE "idle"]
    /\ Idle
    /\ ServiceIdle /\ OtherIdle

\* ----------------------------------------------------------------- actions
\* decode_payload(b, c) is entered
Call(t, b, c) ==
    /\ pc[t] \in {"idle", "done"}
    /\ pc' = [pc EXCEPT ![t] = "called"]
    /\ payload_bytes' = [payload_bytes EXCEPT ![t] = b]
    /\ config_str' = [config_str EXCEPT ![t] = c]
    /\ reads' = [reads EXCEPT ![t] = <<>>]
    /\ result' = [result EXCEPT ![t] = <<>>]
    /\ UNCHANGED <<decoder_class, pos, bindata, overlapped, decoders>>

\* DecoderFactory.get_decoder: choose the class and construct the instance
GetDecoder(t) ==
    /\ pc[t] = "called"
    /\ LET cls == get_decoder(config_str[t])
       IN  /\ decoder_class' = [decoder_class EXCEPT ![t] = cls]
           /\ IF cls = "BaraniDecoder"
              THEN /\ pos' = [pos EXCEPT ![Self(t)] = InitPos(pos[Self(t)])]
                   /\ bindata' = [bindata EXCEPT ![Self(t)] = data2bits(payload_bytes[t])]
              ELSE UNCHANGED <<pos, bindata>>
    /\ decoders' = decoders_after_get(decoders, lower(config_str[t]), "BaraniDecoder")
    /\ pc' = [pc EXCEPT ![t] = "decode"]
    /\ UNCHANGED <<payload_bytes, config_str, reads, result, overlapped>>

\* the next bitShift call of BaraniDecoder.decode
BitShiftStep(t) ==
    /\ pc[t] = "decode"
    /\ decoder_class[t] = "BaraniDecoder"
    /\ Len(reads[t]) < NumFields
    /\ LET bits == Widths[Len(reads[t]) + 1]
           p == pos[Self(t)]
           bd == bindata[Self(t)]
       IN  IF bitShiftRaises(p, bits, bd)
           THEN /\ pc' = [pc EXCEPT ![t] = "raised"]
                /\ UNCHANGED <<pos, reads, overlapped>>
           ELSE /\ pos' = [pos EXCEPT ![Self(t)] = bitShiftPos(p, bits, bd)]
                /\ reads' = [reads EXCEPT ![t] = Append(@,
                       [bits |-> bits, start |-> p,
                        num |-> bitShiftNum(p, bits, bd),
                        short |-> bitShiftShort(p, bits, bd),
                        after |-> bitShiftPos(p, bits, bd)])]
                /\ overlapped' = [overlapped EXCEPT ![t] = @ \/ MidDecodeOther(t)]
                /\ UNCHANGED pc
    /\ UNCHANGED <<payload_bytes, config_str, decoder_class, bindata, result, decoders>>

\* BaraniDecoder.decode builds the dict and decode_payload returns it
ReturnBarani(t) ==
    /\ pc[t] = "decode"
    /\ decoder_class[t] = "BaraniDecoder"
    /\ Len(reads[t]) = NumFields
    /\ result' = [result EXCEPT ![t] = Decoded(Raws(t))]
    /\ pc' = [pc EXCEPT ![t] = "done"]
    /\ UNCHANGED <<payload_bytes, config_str, decoder_class, pos, bindata, reads, overlapped,
                   decoders>>

\* ExampleSensorDecoder.decode, returned by decode_payload
ReturnExample(t) ==
    /\ pc[t] = "decode"
    /\ decoder_class[t] = "ExampleSensorDecoder"
    /\ result' = [result EXCEPT ![t] = ExampleDecode(payload_bytes[t])]
    /\ pc' = [pc EXCEPT ![t] = "done"]
    /\ UNCHANGED <<payload_bytes, config_str, decoder_class, pos, bindata, reads, overlapped,
                   decoders>>

\* history: remember the first call that returned, and whether a call with
\* other arguments has returned since
Record(t) ==
    first' = IF first = <<>>
             THEN << [payload |-> payload_bytes[t], config |-> config_str[t],
                      result |-> result'[t], other |-> FALSE] >>
             ELSE IF first[1].payload = payload_bytes[t] /\ first[1].config = config_str[t]
             THEN first
             ELSE << [first[1] EXCEPT !.other = TRUE] >>

\* ---------------------------------------------------------- specifications
\* one call, stepped through
Next ==
    \/ GetDecoder(1) /\ UNCHANGED <<first, service_vars, other_vars>>
    \/ BitShiftStep(1) /\ UNCHANGED <<first, service_vars, other_vars>>
    \/ ReturnBarani(1) /\ UNCHANGED <<first, service_vars, other_vars>>
    \/ ReturnExample(1) /\ UNCHANGED <<first, service_vars, other_vars>>

Spec == Init /\ [][Next]_vars

\* calls one after the other
NextCalls ==
    \/ \E a \in CallArgs : Call(1, a[1], a[2]) /\ UNCHANGED <<first, service_vars, other_vars>>
    \/ GetDecoder(1) /\ UNCHANGED <<first, service_vars, other_vars>>
    \/ BitShiftStep(1) /\ UNCHANGED <<first, service_vars, other_vars>>
    \/ ReturnBarani(1) /\ Record(1) /\ UNCHANGED <<service_vars, other_vars>>
    \/ ReturnExample(1) /\ Record(1) /\ UNCHANGED <<service_vars, other_vars>>

SpecCalls == InitIdle /\ [][NextCalls]_vars

\* one call per thread, steps interleaved
NextConc ==
    \E t \in Threads :
        \/ \E a \in ConcArgs : pc[t] = "idle" /\ Call(t, a[1], a[2]) /\ UNCHANGED <<first, service_vars, other_vars>>
        \/ GetDecoder(t) /\ UNCHANGED <<first, service_vars, other_vars>>
        \/ BitShiftStep(t) /\ UNCHANGED <<first, service_vars, other_vars>>
        \/ ReturnBarani(t) /\ UNCHANGED <<first, service_vars, other_vars>>
        \/ ReturnExample(t) /\ UNCHANGED <<first, service_vars, other_vars>>

SpecConc == InitIdle /\ [][NextConc]_vars

\* what decode_payload(b, c) returns when it runs alone, start to end
RECURSIVE RunBitShifts(_, _, _)
RunBitShifts(bd, p, k) ==
    IF k > NumFields THEN <<>>
    ELSE <<bitShiftNum(p, Widths[k], bd)>>
         \o RunBitShifts(bd, bitShiftPos(p, Widths[k], bd), k + 1)

DecodeAlone(b, c) ==
    IF get_decoder(c) = "BaraniDecoder"
    THEN Decoded(RunBitShifts(data2bits(b), 0, 1))
    ELSE ExampleDecode(b)

\* ------------------------------------------------------ get_db_connection
\* get_db_connection: max_retries
max_retries == 3

\* mutant: time.sleep after every failed attempt, the last one too
SleepAfterAlways(attempt) == TRUE

\* get_db_connection: if attempt < max_retries - 1 (attempt counts from 0)
SleepAfter(attempt) == attempt < max_retries - 1

\* get_db_connection is entered: for attempt in range(max_retries)
DbStart ==
    /\ db_pc' = "mysql"
    /\ db_attempt' = 0
    /\ db_log' = <<>>
    /\ db_sleeps' = 0
    /\ db_conn' = ""

\* one mysql.connector.connect: it returns a connection or raises
\* mysql.connector.Error
DbMysqlConnect(ok) ==
    /\ db_pc = "mysql"
    /\ db_log' = Append(db_log, ok)
    /\ IF ok
       THEN /\ db_pc' = "returned"
            /\ db_conn' = "mysql"
            /\ UNCHANGED db_attempt
       ELSE IF SleepAfter(db_attempt)
       THEN /\ db_pc' = "sleep"
            /\ UNCHANGED <<db_attempt, db_conn>>
       ELSE IF db_attempt + 1 < max_retries
       THEN /\ db_pc' = "mysql"
            /\ db_attempt' = db_attempt + 1
            /\ UNCHANGED db_conn
       ELSE /\ db_pc' = "sqlite"
            /\ UNCHANGED <<db_attempt, db_conn>>
    /\ UNCHANGED db_sleeps

\* time.sleep(retry_delay) returns and the loop goes on
DbSleep ==
    /\ db_pc = "sleep"
    /\ db_sleeps' = db_sleeps + 1
    /\ IF db_attempt + 1 < max_retries
       THEN db_pc' = "mysql" /\ db_attempt' = db_attempt + 1
       ELSE db_pc' = "sqlite" /\ UNCHANGED db_attempt
    /\ UNCHANGED <<db_log, db_conn>>

\* sqlite3.connect: it returns a connection or raises
DbSqliteConnect(ok) ==
    /\ db_pc = "sqlite"
    /\ db_pc' = "returned"
    /\ db_conn' = IF ok THEN "sqlite" ELSE "None"
    /\ UNCHANGED <<db_attempt, db_log, db_sleeps>>

\* a step of get_db_connection
DbStep ==
    \/ \E ok \in BOOLEAN : DbMysqlConnect(ok)
    \/ DbSleep
    \/ \E ok \in BOOLEAN : DbSqliteConnect(ok)

\* ------------------------------------------------------------- the uplink
\* the payload of verify_mvp.py: eight zero bytes
ZeroBytes == <<0, 0, 0, 0, 0, 0, 0, 0>>

\* base64.b64encode of b, kept as the bytes it encodes
b64encode(b) == [kind |-> "b64", bytes |-> b]

\* base64.b64decode raises binascii.Error on a string that is not base64
b64decodeRaises(d) == d.kind # "b64"

\* base64.b64decode
b64decode(d) == d.bytes

\* the "data" field of the posted JSON: absent, "", not base64, or base64
UplinkData ==
    {[kind |-> "missing", bytes |-> <<>>], [kind |-> "empty", bytes |-> <<>>],
     [kind |-> "invalid", bytes |-> <<>>]}
    \cup {b64encode(b) : b \in {<<65>>, <<65, 50>>, <<65, 50, 7>>, GoldenBytes, ZeroBytes}}

\* mutant: the check for a missing payload left out
FalsyNever(d) == FALSE

\* not payload_b64
Falsy(d) == d.kind \in {"missing", "empty"}

\* the devices table joined with sensor_types: a device of sensor type
\* 'v1', one of 'simple', one of an upper-case 'SIMPLE', one whose sensor
\* type has decoder_config NULL, one without a sensor type; the device id
\* that uplink() falls back to ("Hardware_Sensor_01") is not registered
Registered ==
    {[dev_eui |-> "eui_v1", id |-> 1, config_null |-> FALSE, decoder_config |-> S_v1],
     [dev_eui |-> "eui_simple", id |-> 2, config_null |-> FALSE, decoder_config |-> S_simple],
     [dev_eui |-> "eui_Simple", id |-> 3, config_null |-> FALSE, decoder_config |-> S_Simple],
     [dev_eui |-> "eui_null_config", id |-> 4, config_null |-> TRUE, decoder_config |-> <<>>],
     [dev_eui |-> "eui_no_type", id |-> 5, config_null |-> TRUE, decoder_config |-> <<>>]}

DevEuis == {d.dev_eui : d \in Registered} \cup {"Hardware_Sensor_01"}

UplinkRequests == [data : UplinkData, device_id : DevEuis]

\* cursor.fetchone() of get_device_by_eui: the row as a dict (mysql cursor
\* with dictionary=True) or as a sqlite3.Row, None if there is no such row
fetchone_device(dev_eui, db_type) ==
    IF \E d \in Registered : d.dev_eui = dev_eui
    THEN LET d == CHOOSE r \in Registered : r.dev_eui = dev_eui
         IN [kind |-> IF db_type = "mysql" THEN "dict" ELSE "Row", id |-> d.id,
             config_null |-> d.config_null, decoder_config |-> d.decoder_config]
    ELSE NoDevice

\* if device
Truthy(device) == device.kind # "None"

\* device.get raises AttributeError: sqlite3.Row has no method get
device_getRaises(device) == device.kind = "Row"

\* device.get('decoder_config', default): the key is in the row of the
\* join, so a NULL comes back as None and the default is not used
device_get(device, default) ==
    IF device.config_null THEN NoConfig
    ELSE [none |-> FALSE, str |-> device.decoder_config]

\* decode_payload raises AttributeError: None has no method lower
decode_payloadRaises(cfg) == cfg.none

\* decoded.get(k): <<>> is None
dict_get(d, k) ==
    IF \E i \in 1..Len(d) : d[i].key = k
    THEN <<d[CHOOSE i \in 1..Len(d) : d[i].key = k].num>>
    ELSE <<>>

\* the columns that save_sensor_data fills from decoded
Columns == <<"Type", "Battery", "Temperature", "T_min", "T_max", "Humidity",
             "Pressure", "Irradiation", "Irr_max", "Rain", "Rain_min_time">>

\* the row that save_sensor_data inserts
sensor_data_row(raw_payload, decoded, device_id) ==
    [raw_payload |-> raw_payload, device_id |-> device_id,
     values |-> [i \in 1..Len(Columns) |-> dict_get(decoded, Columns[i])]]

\* the row that save_uplink inserts
uplinks_row(dev_eui, payload_raw, device_db_id) ==
    [dev_eui |-> dev_eui, payload_raw |-> payload_raw, device_id |-> device_db_id]

\* except Exception as e: the response 400 with status "error"
Respond400 ==
    /\ up_response' = [code |-> 400, status |-> "error", device_known |-> FALSE]
    /\ up_pc' = "done"

\* uplink(): the JSON is read; without "data" a ValueError is raised,
\* otherwise get_device_by_eui is called
UplinkReceive ==
    /\ up_pc = "received"
    /\ IF Falsy(up_request.data)
       THEN /\ Respond400
            /\ UNCHANGED db_vars
       ELSE /\ up_pc' = "lookup"
            /\ DbStart
            /\ UNCHANGED up_response
    /\ UNCHANGED <<up_request, up_device, up_config_str, up_decoded, uplinks,
                   sensor_data, decoder_vars, other_vars, login_vars>>

\* get_device_by_eui after its get_db_connection: None without a
\* connection or when the query raises, else the row
UplinkLookup(ok) ==
    /\ up_pc = "lookup" /\ db_pc = "returned"
    /\ up_device' = IF db_conn = "None" \/ ~ok THEN NoDevice
                    ELSE fetchone_device(up_request.device_id, db_conn)
    /\ up_pc' = "decode"
    /\ UNCHANGED <<up_request, up_config_str, up_decoded, up_response, uplinks,
                   sensor_data, db_vars, decoder_vars, other_vars, login_vars>>

\* uplink(): b64decode, the config string of the device, decode_payload,
\* then save_uplink is called
UplinkDecode ==
    /\ up_pc = "decode"
    /\ LET cfg == IF Truthy(up_device) THEN device_get(up_device, S_v1)
                  ELSE [none |-> FALSE, str |-> S_v1]
       IN IF b64decodeRaises(up_request.data)
          THEN /\ Respond400
               /\ UNCHANGED <<up_config_str, up_decoded, db_vars>>
          ELSE IF Truthy(up_device) /\ device_getRaises(up_device)
          THEN /\ Respond400
               /\ UNCHANGED <<up_config_str, up_decoded, db_vars>>
          ELSE IF decode_payloadRaises(cfg)
          THEN /\ Respond400
               /\ up_config_str' = cfg
               /\ UNCHANGED <<up_decoded, db_vars>>
          ELSE /\ up_config_str' = cfg
               /\ up_decoded' = DecodeAlone(b64decode(up_request.data), cfg.str)
               /\ up_pc' = "save_uplink"
               /\ DbStart
               /\ UNCHANGED up_response
    /\ UNCHANGED <<up_request, up_device, uplinks, sensor_data, decoder_vars, other_vars,
                   login_vars>>

\* save_uplink after its get_db_connection: the row is inserted unless
\* there is no connection or the insert raises; then save_sensor_data is
\* called
UplinkSaveUplink(ok) ==
    /\ up_pc = "save_uplink" /\ db_pc = "returned"
    /\ uplinks' = IF db_conn = "None" \/ ~ok THEN uplinks
                  ELSE Append(uplinks, uplinks_row(up_request.device_id,
                                                   up_request.data, up_device.id))
    /\ up_pc' = "save_data"
    /\ DbStart
    /\ UNCHANGED <<up_request, up_device, up_config_str, up_decoded, up_response,
                   sensor_data, decoder_vars, other_vars, login_vars>>

\* mutant: the response code does not depend on save_sensor_data
response_codeAlways200(success) == 200

\* uplink(): 200 if success else 500
response_code(success) == IF success THEN 200 ELSE 500

\* save_sensor_data after its get_db_connection, and the response of
\* uplink(): 200 "ok" if the row was stored, else 500 "error"
UplinkSaveData(ok) ==
    /\ up_pc = "save_data" /\ db_pc = "returned"
    /\ LET success == db_conn # "None" /\ ok
       IN /\ sensor_data' = IF success
                            THEN Append(sensor_data,
                                        sensor_data_row(up_request.data, up_decoded,
                                                        up_request.device_id))
                            ELSE sensor_data
          /\ up_response' = [code |-> response_code(success),
                             status |-> IF success THEN "ok" ELSE "error",
                             device_known |-> Truthy(up_device)]
    /\ up_pc' = "done"
    /\ UNCHANGED <<up_request, up_device, up_config_str, up_decoded, uplinks,
                   db_vars, decoder_vars, other_vars, login_vars>>

\* get_db_connection runs inside the database function that called it
UplinkDb ==
    /\ up_pc \in {"lookup", "save_uplink", "save_data"}
    /\ DbStep
    /\ UNCHANGED <<uplink_vars, decoder_vars, other_vars, login_vars>>

\* one POST to the uplink endpoint
InitUplink ==
    /\ DecoderIdle /\ DbIdle /\ LoginIdle /\ OtherIdle
    /\ up_pc = "received"
    /\ up_request \in UplinkRequests
    /\ up_device = NoDevice
    /\ up_config_str = NoConfig
    /\ up_decoded = <<>>
    /\ up_response = NoResponse
    /\ uplinks = <<>>
    /\ sensor_data = <<>>

NextUplink ==
    \/ UplinkReceive
    \/ UplinkDb
    \/ \E ok \in BOOLEAN : UplinkLookup(ok)
    \/ UplinkDecode
    \/ \E ok \in BOOLEAN : UplinkSaveUplink(ok)
    \/ \E ok \in BOOLEAN : UplinkSaveData(ok)

\* a connect and a sleep of get_db_connection return: connect_timeout=5,
\* retry_delay = 2
SpecUplink == InitUplink /\ [][NextUplink]_vars /\ WF_vars(UplinkDb)

\* --------------------------------------------------------------- the login
\* werkzeug generate_password_hash: the hash is kept as the password it was
\* made of
generate_password_hash(password) == <<"pbkdf2", password>>

\* werkzeug check_password_hash
check_password_hash(pwhash, password) == pwhash = generate_password_hash(password)

\* the users table after init_db: the default admin and the test user
Users ==
    {[id |-> 1, username |-> "admin",
      password_hash |-> generate_password_hash("admin123"), is_admin |-> TRUE],
     [id |-> 2, username |-> "testuser",
      password_hash |-> generate_password_hash("test123"), is_admin |-> FALSE]}

\* the user names and passwords that are posted
Usernames == {"admin", "testuser", "nobody"}

Passwords == {"admin123", "test123", "wrongpassword"}

\* the two copies of the dashboard
Variants == {"apps", "services"}

\* cursor.fetchone() of get_user_by_username: a dict, a sqlite3.Row or None
fetchone_user(username, db_type) ==
    IF \E u \in Users : u.username = username
    THEN LET u == CHOOSE r \in Users : r.username = username
         IN [kind |-> IF db_type = "mysql" THEN "dict" ELSE "Row", id |-> u.id,
             username |-> u.username, password_hash |-> u.password_hash,
             is_admin |-> u.is_admin]
    ELSE NoLogin.user

\* get_user_by_username: None without a connection or when the query
\* raises, else the row
get_user_by_username(username, conn, ok) ==
    IF conn = "None" \/ ~ok THEN NoLogin.user ELSE fetchone_user(username, conn)

\* mutant: the emergency fallback that lets admin/admin123 in without a
\* user record
AuthenticatedBackdoor(user, username, password) ==
    \/ user.kind # "None" /\ check_password_hash(user.password_hash, password)
    \/ username = "admin" /\ password = "admin123"

\* login(): a user record was found and the password matches its hash
Authenticated(user, username, password) ==
    user.kind # "None" /\ check_password_hash(user.password_hash, password)

\* POST /api/login with a user name and a password; conn is what
\* get_db_connection returned to get_user_by_username and ok whether its
\* query ran. In the services copy user.get('is_admin') raises on a
\* sqlite3.Row after user_id and username are set.
Login(username, password, conn, ok) ==
    LET user == get_user_by_username(username, conn, ok)
        variant == login_request.variant
    IN /\ login_request' = [username |-> username, password |-> password,
                            variant |-> variant, user |-> user, before |-> session]
       /\ IF Authenticated(user, username, password)
          THEN IF variant = "services" /\ user.kind = "Row"
               THEN /\ session' = [session EXCEPT !.user_id = user.id,
                                                  !.username = user.username]
                    /\ login_response' = [code |-> 500, success |-> FALSE]
               ELSE /\ session' = [user_id |-> user.id, username |-> user.username,
                                   is_admin |-> user.is_admin]
                    /\ login_response' = [code |-> 200, success |-> TRUE]
          ELSE /\ session' = session
               /\ login_response' = [code |-> 401, success |-> FALSE]
       /\ UNCHANGED <<decoder_vars, other_vars, uplink_vars, db_vars>>

\* GET /api/logout: session.clear()
Logout ==
    /\ session # NoSession
    /\ session' = NoSession
    /\ login_response' = [code |-> 200, success |-> TRUE]
    /\ login_request' = [NoLogin EXCEPT !.variant = login_request.variant,
                                        !.before = session]
    /\ UNCHANGED <<decoder_vars, other_vars, uplink_vars, db_vars>>

\* a client without a session, on one of the two dashboards
InitLogin ==
    /\ DecoderIdle /\ UplinkIdle /\ DbIdle /\ OtherIdle
    /\ session = NoSession
    /\ \E v \in Variants : login_request = [NoLogin EXCEPT !.variant = v]
    /\ login_response = NoLoginResponse

NextLogin ==
    \/ \E username \in Usernames, password \in Passwords,
          conn \in {"mysql", "sqlite", "None"}, ok \in BOOLEAN :
              Login(username, password, conn, ok)
    \/ Logout

SpecLogin == InitLogin /\ [][NextLogin]_vars

\* ------------------------------------- services/uplink/src/app.py: Decoder
\* app.py pad: "00000000" + str(num), last eight characters
app_pad(num) ==
    LET t == <<0, 0, 0, 0, 0, 0, 0, 0>> \o num
    IN  SubSeq(t, Len(t) - 7, Len(t))

\* app.py dec2bin: pad(bin(num)[2:])
app_dec2bin(num) == app_pad(bin(num))

\* app.py bin2dec: int(num, 2)
RECURSIVE app_bin2dec(_)
app_bin2dec(num) ==
    IF Len(num) = 0 THEN 0
    ELSE 2 * app_bin2dec(SubSeq(num, 1, Len(num) - 1)) + num[Len(num)]

\* app.py data2bits
RECURSIVE app_data2bits(_)
app_data2bits(data) ==
    IF Len(data) = 0 THEN <<>>
    ELSE app_data2bits(SubSeq(data, 1, Len(data) - 1)) \o app_dec2bin(data[Len(data)])

\* app.py bitShift: if pos + bits > len(bindata): return 0
app_bitShiftShort(p, bits, bd) == p + bits > Len(bd)

\* app.py bitShift: the value returned
app_bitShiftNum(p, bits, bd) ==
    IF app_bitShiftShort(p, bits, bd) THEN 0
    ELSE app_bin2dec(Slice(bd, p, p + bits))

\* app.py bitShift: the global pos afterwards
app_bitShiftPos(p, bits, bd) ==
    IF app_bitShiftShort(p, bits, bd) THEN p ELSE p + bits

\* app.py precisionRound
app_precisionRound(number, precision) ==
    LET factor == Pow10(precision)
    IN  (round(number * factor, Unit) * Unit) \div factor

\* the widths Decoder asks bitShift for, in call order
app_Widths == <<2, 5, 11, 6, 6, 9, 14, 10, 9, 8, 8>>

\* the dict Decoder returns, given the eleven values bitShift returned
app_Decoded(r) ==
    LET Temperature == app_precisionRound(r[3] * (Unit \div 10) - 100 * Unit, 1)
        Pressure == r[7] * 5 + 50000
        Irradiation == r[8] * 2
        Irr_max == Irradiation + r[9] * 2
    IN  << Num("Type", r[1] * Unit),
           Num("Battery", app_precisionRound(r[2] * (Unit \div 20) + 3 * Unit, 2)),
           Num("Temperature", Temperature),
           Num("T_min", app_precisionRound(Temperature - r[4] * (Unit \div 10), 1)),
           Num("T_max", app_precisionRound(Temperature + r[5] * (Unit \div 10), 1)),
           Num("Humidity", app_precisionRound(r[6] * (Unit \div 5), 1)),
           Num("Pressure", (Pressure * Unit) \div 100),
           Num("Irradiation", Irradiation * Unit),
           Num("Irr_max", Irr_max * Unit),
           Num("Rain", app_precisionRound(r[10] * Unit, 1)),
           Num("Rain_min_time", app_precisionRound(r[11] * Unit, 1)) >>

\* mutant: Decoder starts reading where the last invocation stopped
app_StalePos(old) == old

\* Decoder: pos = 0
app_InitPos(old) == 0

\* another invocation is between two of its bitShift calls
LegacyMidOther(t) ==
    \E u \in Threads \ {t} :
        legacy_pc[u] = "decode" /\ Len(legacy_raws[u]) > 0
            /\ Len(legacy_raws[u]) < Len(app_Widths)

\* Decoder(b) is called
LegacyCall(t, b) ==
    /\ legacy_pc[t] \in {"idle", "done"}
    /\ legacy_pc' = [legacy_pc EXCEPT ![t] = "called"]
    /\ legacy_prev' = IF legacy_pc[t] = "done" THEN <<legacy_payload[t]>> ELSE legacy_prev
    /\ legacy_payload' = [legacy_payload EXCEPT ![t] = b]
    /\ legacy_raws' = [legacy_raws EXCEPT ![t] = <<>>]
    /\ legacy_result' = [legacy_result EXCEPT ![t] = <<>>]
    /\ legacy_overlapped' = [legacy_overlapped EXCEPT ![t] = FALSE]
    /\ UNCHANGED <<app_pos, app_bindata>>

\* Decoder: pos = 0; bindata = data2bits(payload_bytes)
LegacyEnter(t) ==
    /\ legacy_pc[t] = "called"
    /\ app_pos' = app_InitPos(app_pos)
    /\ app_bindata' = app_data2bits(legacy_payload[t])
    /\ legacy_pc' = [legacy_pc EXCEPT ![t] = "decode"]
    /\ UNCHANGED <<legacy_payload, legacy_raws, legacy_result, legacy_overlapped,
                   legacy_prev>>

\* the next bitShift call of Decoder, on the globals
LegacyBitShift(t) ==
    /\ legacy_pc[t] = "decode"
    /\ Len(legacy_raws[t]) < Len(app_Widths)
    /\ LET bits == app_Widths[Len(legacy_raws[t]) + 1]
       IN  /\ legacy_raws' = [legacy_raws EXCEPT
                                 ![t] = Append(@, app_bitShiftNum(app_pos, bits, app_bindata))]
           /\ app_pos' = app_bitShiftPos(app_pos, bits, app_bindata)
    /\ legacy_overlapped' = [legacy_overlapped EXCEPT ![t] = @ \/ LegacyMidOther(t)]
    /\ UNCHANGED <<app_bindata, legacy_pc, legacy_payload, legacy_result, legacy_prev>>

\* Decoder builds the dict and returns it
LegacyReturn(t) ==
    /\ legacy_pc[t] = "decode"
    /\ Len(legacy_raws[t]) = Len(app_Widths)
    /\ legacy_result' = [legacy_result EXCEPT ![t] = app_Decoded(legacy_raws[t])]
    /\ legacy_pc' = [legacy_pc EXCEPT ![t] = "done"]
    /\ UNCHANGED <<app_pos, app_bindata, legacy_payload, legacy_raws, legacy_overlapped,
                   legacy_prev>>

\* nothing but Decoder runs
InitLegacy ==
    /\ DecoderIdle /\ ServiceIdle /\ LegacyIdle /\ EncoderIdle /\ rounding = NoRounding

\* payloads for successive invocations: every length, four patterns
LegacyPayloads == {Prefix(k, n) : k \in {1, 3, 4, 5}, n \in 0..MaxLen}

\* payloads for concurrent invocations
LegacyConcPayloads == {Prefix(1, Len(GoldenBytes)), Prefix(3, 6)}

\* invocations one after the other
NextLegacySeq ==
    /\ \/ \E b \in LegacyPayloads : LegacyCall(1, b)
       \/ LegacyEnter(1)
       \/ LegacyBitShift(1)
       \/ LegacyReturn(1)
    /\ UNCHANGED <<decoder_vars, service_vars, encoder_vars, rounding>>

SpecLegacySeq == InitLegacy /\ [][NextLegacySeq]_vars

\* one invocation per thread, steps interleaved
NextLegacyConc ==
    /\ \E t \in Threads :
        \/ \E b \in LegacyConcPayloads : legacy_pc[t] = "idle" /\ LegacyCall(t, b)
        \/ LegacyEnter(t)
        \/ LegacyBitShift(t)
        \/ LegacyReturn(t)
    /\ UNCHANGED <<decoder_vars, service_vars, encoder_vars, rounding>>

SpecLegacyConc == InitLegacy /\ [][NextLegacyConc]_vars

\* ------------------------------- scripts/simulate_sensor.py: BaraniEncoder
\* 1 << bit_length
RECURSIVE shl1(_)
shl1(bit_length) == IF bit_length = 0 THEN 1 ELSE 2 * shl1(bit_length - 1)

\* mutant: add_value without the clamp to max_val
enc_clampLowOnly(value, max_val) == IF value < 0 THEN 0 ELSE value

\* add_value: if value < 0: value = 0; if value > max_val: value = max_val
enc_clamp(value, max_val) ==
    IF value < 0 THEN 0 ELSE IF value > max_val THEN max_val ELSE value

\* str.zfill(n): zeros on the left up to n characters
zfill(str, n) ==
    IF Len(str) >= n THEN str ELSE [i \in 1..(n - Len(str)) |-> 0] \o str

\* the characters add_value(value, bit_length) appends for an integer value
\* (int(round(value)) is the value itself)
add_value(value, bit_length) ==
    LET max_val == shl1(bit_length) - 1
        bin_str == zfill(bin(enc_clamp(value, max_val)), bit_length)
    IN  IF Len(bin_str) > bit_length
        THEN SubSeq(bin_str, Len(bin_str) - bit_length + 1, Len(bin_str))
        ELSE bin_str

\* get_bytes: self.bits after "while len(self.bits) % 8 != 0: self.bits += '0'"
padded_bits(b) == b \o [i \in 1..((8 - (Len(b) % 8)) % 8) |-> 0]

\* get_bytes: int(byte_chunk, 2) for every chunk of eight characters
byte_array(b) ==
    [i \in 1..(Len(b) \div 8) |-> bin2dec(SubSeq(b, 8 * (i - 1) + 1, 8 * i))]

\* the bit lengths generate_random_payload passes to add_value, in call order
EncWidths == <<2, 5, 11, 6, 6, 9, 14, 10, 9, 8, 8>>

\* tuples of eleven integers: all zero, all maximal, all one above the
\* maximum, all negative, and the values of a usual reading
EncBase(j) ==
    [k \in 1..Len(EncWidths) |->
        CASE j = 1 -> 0
          [] j = 2 -> shl1(EncWidths[k]) - 1
          [] j = 3 -> shl1(EncWidths[k])
          [] j = 4 -> -1
          [] OTHER -> <<1, 16, 1225, 20, 30, 250, 10000, 300, 40, 7, 0>>[k]]

\* the values one field of a base tuple is replaced by
EncSpecial(w) == {-3, 0, 1, shl1(w) - 2, shl1(w) - 1, shl1(w), 2 * shl1(w) - 1, 3 * shl1(w) + 1}

EncTuples ==
    {[EncBase(j) EXCEPT ![k] = v] :
        j \in 1..5, k \in 1..Len(EncWidths), v \in EncSpecial(3)}
    \cup UNION {{[EncBase(j) EXCEPT ![k] = v] : v \in EncSpecial(EncWidths[k])} :
                    j \in 1..5, k \in 1..Len(EncWidths)}

\* enc = BaraniEncoder() and the eleven values to encode
InitEncode ==
    /\ DecoderIdle /\ ServiceIdle /\ LegacyIdle /\ rounding = NoRounding
    /\ enc_pc = "add"
    /\ enc_values \in EncTuples
    /\ enc_k = 0
    /\ enc_bits = <<>>
    /\ enc_bytes = <<>>

\* the next enc.add_value(value, bit_length)
EncAddValue ==
    /\ enc_pc = "add"
    /\ enc_k < Len(EncWidths)
    /\ enc_bits' = enc_bits \o add_value(enc_values[enc_k + 1], EncWidths[enc_k + 1])
    /\ enc_k' = enc_k + 1
    /\ enc_pc' = IF enc_k + 1 = Len(EncWidths) THEN "bytes" ELSE "add"
    /\ UNCHANGED <<enc_values, enc_bytes>>

\* enc.get_bytes()
EncGetBytes ==
    /\ enc_pc = "bytes"
    /\ enc_bits' = padded_bits(enc_bits)
    /\ enc_bytes' = byte_array(padded_bits(enc_bits))
    /\ enc_pc' = "done"
    /\ UNCHANGED <<enc_values, enc_k>>

\* the bytes are encoded, then decoded by the primary profile
NextEncode ==
    \/ EncAddValue /\ UNCHANGED <<decoder_vars, service_vars, legacy_vars, rounding>>
    \/ EncGetBytes /\ UNCHANGED <<decoder_vars, service_vars, legacy_vars, rounding>>
    \/ /\ enc_pc = "done" /\ pc[1] = "idle"
       /\ Call(1, enc_bytes, S_v1)
       /\ UNCHANGED <<first, service_vars, other_vars>>
    \/ GetDecoder(1) /\ UNCHANGED <<first, service_vars, other_vars>>
    \/ BitShiftStep(1) /\ UNCHANGED <<first, service_vars, other_vars>>
    \/ ReturnBarani(1) /\ UNCHANGED <<first, service_vars, other_vars>>

SpecEncode == InitEncode /\ [][NextEncode]_vars

\* ----------------------------------------------------- precisionRound alone
\* the digits asked for: decode uses 1 and 2, the tests 0
Precisions == {0, 1, 2}

\* precisionRound is to be applied to any number and precision
InitRound ==
    /\ DecoderIdle /\ ServiceIdle /\ LegacyIdle /\ EncoderIdle
    /\ \E n \in (-RoundMax)..RoundMax, p \in Precisions :
           rounding = [number |-> n, precision |-> p, applied |-> FALSE, result |-> 0]

\* precisionRound(number, precision) returns
ApplyRound ==
    /\ ~rounding.applied
    /\ rounding' = [rounding EXCEPT
                       !.applied = TRUE,
                       !.result = precisionRound(rounding.number, rounding.precision)]
    /\ UNCHANGED <<decoder_vars, service_vars, legacy_vars, encoder_vars>>

NextRound == ApplyRound

SpecRound == InitRound /\ [][NextRound]_vars

\* ------------------------------------------------------ claim vocabulary
\* the value under key k of a returned dict
Get(d, k) == LET i == CHOOSE j \in 1..Len(d) : d[j].key = k IN d[i].num

\* the string under key k of a returned dict
GetText(d, k) == LET i == CHOOSE j \in 1..Len(d) : d[j].key = k IN d[i].text

KeysOf(d) == [i \in 1..Len(d) |-> d[i].key]

HasKey(d, k) == \E i \in 1..Len(d) : d[i].key = k

RECURSIVE Sum(_)
Sum(s) == IF Len(s) = 0 THEN 0 ELSE Sum(SubSeq(s, 1, Len(s) - 1)) + s[Len(s)]

RECURSIVE Pow2(_)
Pow2(n) == IF n = 0 THEN 1 ELSE 2 * Pow2(n - 1)

\* bit k of payload b, bit 0 being the most significant bit of byte 0
BitAt(b, k) == (b[(k \div 8) + 1] \div Pow2(7 - (k % 8))) % 2

\* the unsigned integer formed by bits off .. off+w-1 of payload b
RECURSIVE RangeValue(_, _, _)
RangeValue(b, off, w) ==
    IF w = 0 THEN 0
    ELSE 2 * RangeValue(b, off, w - 1) + BitAt(b, off + w - 1)

\* declared first bit of field k: 0, 2, 7, 18, 24, 30, 39, 53, 63, 72, 80
DeclaredOffset(k) == Sum(SubSeq(<<2, 5, 11, 6, 6, 9, 14, 10, 9, 8, 8>>, 1, k - 1))
DeclaredWidth(k) == <<2, 5, 11, 6, 6, 9, 14, 10, 9, 8, 8>>[k]

\* thread t has returned from a primary-profile decode
BaraniDone(t) == pc[t] = "done" /\ decoder_class[t] = "BaraniDecoder"

\* ------------------------------------------------------------------ claims

\* C1: every bitShift call that finds too few bits left (pos + width > number
\* of payload bits) returns 0 and still advances the cursor by width.
C1_ShortReadAdvances ==
    \A t \in Threads : \A i \in 1..Len(reads[t]) :
        reads[t][i].short =>
            /\ reads[t][i].num = 0
            /\ reads[t][i].after = reads[t][i].start + reads[t][i].bits

\* C2: for every payload shorter than 11 bytes decoded by the primary profile,
\* a field whose declared bit range is not fully inside the payload is decoded
\* from raw value 0, and every other field from exactly the bits of its own
\* declared range.
C2_GracefulDegradation ==
    (BaraniDone(1) /\ Len(payload_bytes[1]) < 11) =>
        \A k \in 1..11 :
            reads[1][k].num =
                IF DeclaredOffset(k) + DeclaredWidth(k) <= 8 * Len(payload_bytes[1])
                THEN RangeValue(payload_bytes[1], DeclaredOffset(k), DeclaredWidth(k))
                ELSE 0

\* C3: a decode_payload call with the arguments of the first call that
\* returned, made after any calls with other arguments, returns the record
\* that first call returned.
C3_Determinism ==
    (pc[1] = "done" /\ first # <<>>
        /\ first[1].payload = payload_bytes[1] /\ first[1].config = config_str[1])
    => result[1] = first[1].result

\* a call has returned the first call's record again after a call with other
\* arguments returned in between
C3_Witness ==
    /\ pc[1] = "done" /\ first # <<>>
    /\ first[1].payload = payload_bytes[1] /\ first[1].config = config_str[1]
    /\ first[1].other
    /\ decoder_class[1] = "BaraniDecoder"
    /\ result[1] = first[1].result

\* C4: with the bitShift steps of concurrent decode_payload calls interleaved
\* in any order, no call raises and each call returns exactly the record it
\* returns when run alone.
C4_ConcurrentSafe ==
    \A t \in Threads :
        /\ pc[t] # "raised"
        /\ pc[t] = "done" => result[t] = DecodeAlone(payload_bytes[t], config_str[t])

\* two primary-profile calls on different payloads have both returned their
\* own records after each made a bitShift call while the other was between
\* two of its own
C4_Witness ==
    /\ BaraniDone(1) /\ BaraniDone(2)
    /\ payload_bytes[1] # payload_bytes[2]
    /\ overlapped[1] /\ overlapped[2]
    /\ result[1] = DecodeAlone(payload_bytes[1], config_str[1])
    /\ result[2] = DecodeAlone(payload_bytes[2], config_str[2])
    /\ result[1] # result[2]

\* C5: during a primary-profile decode 0 <= pos <= number of payload bits in
\* every state, and pos never decreases from one bitShift call to the next.
C5_CursorInvariant ==
    /\ [](\A t \in Threads : 0 <= pos[t] /\ pos[t] <= Len(bindata[t]))
    /\ [][\A t \in Threads :
            (pc[t] = "decode" /\ pc'[t] \in {"decode", "done"}) => pos'[t] >= pos[t]]_vars

\* a decode has made short reads and ended with the cursor inside a
\* non-empty payload
C5_Witness ==
    /\ BaraniDone(1)
    /\ \E i \in 1..Len(reads[1]) : reads[1][i].short
    /\ 0 < pos[1] /\ pos[1] <= Len(bindata[1])
    /\ Len(bindata[1]) = 8 * Len(payload_bytes[1])

\* C6: the widths the primary profile requests sum to 88; on a payload of
\* exactly 11 bytes no bitShift call takes the underrun branch and the cursor
\* is exactly 88 when decode returns.
C6_BitWidthExhaustion ==
    /\ Sum(Widths) = 88
    /\ (decoder_class[1] = "BaraniDecoder" /\ Len(payload_bytes[1]) = 11) =>
          /\ \A i \in 1..Len(reads[1]) : ~reads[1][i].short
          /\ pc[1] = "done" => pos[1] = 88

C6_Witness ==
    /\ BaraniDone(1) /\ Len(payload_bytes[1]) = 11
    /\ Len(reads[1]) = 11 /\ pos[1] = 88
    /\ \A i \in 1..11 : ~reads[1][i].short

\* C7: for every payload, the empty one included, the record the primary
\* profile returns has exactly the eleven keys Type, Battery, Temperature,
\* T_min, T_max, Humidity, Pressure, Irradiation, Irr_max, Rain,
\* Rain_min_time, in that order.
C7_FieldCoverage ==
    BaraniDone(1) =>
        KeysOf(result[1]) =
            <<"Type", "Battery", "Temperature", "T_min", "T_max", "Humidity",
              "Pressure", "Irradiation", "Irr_max", "Rain", "Rain_min_time">>

C7_Witness ==
    /\ BaraniDone(1) /\ payload_bytes[1] = <<>>
    /\ Len(result[1]) = 11
    /\ result[1][1].key = "Type" /\ result[1][11].key = "Rain_min_time"

\* C8: for every payload of 0 to 11 bytes, decode_payload(b, "v1") never
\* raises, can always take its next step until it has returned, and returns
\* a record after exactly eleven bitShift calls.
C8_DecodeTotal ==
    (config_str[1] = S_v1 /\ Len(payload_bytes[1]) <= 11) =>
        /\ pc[1] # "raised"
        /\ Len(reads[1]) <= 11
        /\ pc[1] = "done" => (Len(reads[1]) = 11 /\ Len(result[1]) > 0)
        /\ pc[1] # "done" => ENABLED Next

\* the 8-byte all-zero payload has been decoded by eleven bitShift calls
C8_Witness ==
    /\ pc[1] = "done" /\ config_str[1] = S_v1
    /\ payload_bytes[1] = <<0, 0, 0, 0, 0, 0, 0, 0>>
    /\ Len(reads[1]) = 11 /\ Len(result[1]) > 0
    /\ \E i \in 1..11 : reads[1][i].short

\* C9: for every 11-byte payload decoded with the primary profile,
\* T_min <= Temperature <= T_max and Irradiation <= Irr_max.
C9_DependentFields ==
    (BaraniDone(1) /\ Len(payload_bytes[1]) = 11) =>
        /\ Get(result[1], "T_min") <= Get(result[1], "Temperature")
        /\ Get(result[1], "Temperature") <= Get(result[1], "T_max")
        /\ Get(result[1], "Irradiation") <= Get(result[1], "Irr_max")

\* an 11-byte payload has been decoded with all three inequalities strict
C9_Witness ==
    /\ BaraniDone(1) /\ Len(payload_bytes[1]) = 11
    /\ Get(result[1], "T_min") < Get(result[1], "Temperature")
    /\ Get(result[1], "Temperature") < Get(result[1], "T_max")
    /\ Get(result[1], "Irradiation") < Get(result[1], "Irr_max")

\* C10: the payload [95,44,64,2,177,51,240,0,0,0,255] decoded with the primary
\* profile gives raw field values 1, 15, 1201, 0, 0, 344, 9854, 0, 0, 0, 255
\* and Type=1, Battery=3.75, Temperature=20.1, T_min=20.1, T_max=20.1,
\* Humidity=68.8, Pressure=992.7, Irradiation=0, Irr_max=0, Rain=0,
\* Rain_min_time=255 (values below in 1/100).
C10_Golden ==
    (BaraniDone(1) /\ payload_bytes[1] = <<95, 44, 64, 2, 177, 51, 240, 0, 0, 0, 255>>) =>
        /\ Raws(1) = <<1, 15, 1201, 0, 0, 344, 9854, 0, 0, 0, 255>>
        /\ [i \in 1..Len(result[1]) |-> result[1][i].num] =
              <<100, 375, 2010, 2010, 2010, 6880, 99270, 0, 0, 0, 25500>>

C10_Witness ==
    /\ BaraniDone(1) /\ config_str[1] = S_v1
    /\ payload_bytes[1] = <<95, 44, 64, 2, 177, 51, 240, 0, 0, 0, 255>>
    /\ Get(result[1], "Temperature") = 2010
    /\ Get(result[1], "Rain_min_time") = 25500

\* C11: for every payload of 0 or 1 bytes, decode_payload(b, "simple") returns
\* an error result that cannot be taken for a measurement record: its only
\* key is "error", so it has neither a Temperature nor a Humidity value.
C11_ShortPayloadFails ==
    (pc[1] = "done" /\ config_str[1] = S_simple /\ Len(payload_bytes[1]) < 2) =>
        /\ KeysOf(result[1]) = <<"error">>
        /\ GetText(result[1], "error") # ""
        /\ ~HasKey(result[1], "Temperature")
        /\ ~HasKey(result[1], "Humidity")

\* the one-byte payload [65] has been answered with the error result
C11_Witness ==
    /\ pc[1] = "done" /\ config_str[1] = S_simple
    /\ payload_bytes[1] = <<65>>
    /\ HasKey(result[1], "error")

\* C13: for every payload of at least 2 bytes, decode_payload(b, "simple")
\* yields Temperature = b[0] - 40 and Humidity = b[1]; [65, 50] yields 25 and 50.
C13_MinimalValues ==
    (pc[1] = "done" /\ config_str[1] = S_simple /\ Len(payload_bytes[1]) >= 2) =>
        /\ Get(result[1], "Temperature") = (payload_bytes[1][1] - 40) * 100
        /\ Get(result[1], "Humidity") = payload_bytes[1][2] * 100
        /\ payload_bytes[1] = <<65, 50>> =>
              (Get(result[1], "Temperature") = 2500 /\ Get(result[1], "Humidity") = 5000)

C13_Witness ==
    /\ pc[1] = "done" /\ config_str[1] = S_simple
    /\ payload_bytes[1] = <<65, 50>>
    /\ Get(result[1], "Temperature") = 2500

\* C14: for every payload, decode_payload(b, "barani") returns the record
\* decode_payload(b, "v1") returns, and the other way round.
C14_AliasEquivalence ==
    /\ (pc[1] = "done" /\ config_str[1] = S_barani) =>
          result[1] = DecodeAlone(payload_bytes[1], S_v1)
    /\ (pc[1] = "done" /\ config_str[1] = S_v1) =>
          result[1] = DecodeAlone(payload_bytes[1], S_barani)

C14_Witness ==
    /\ pc[1] = "done" /\ config_str[1] = S_barani
    /\ payload_bytes[1] = GoldenBytes
    /\ Len(reads[1]) = NumFields
    /\ result[1] = DecodeAlone(GoldenBytes, S_v1)

\* C15: for every payload and every identifier that is no known alias in any
\* letter case, the empty string included, decode_payload raises nothing and
\* returns the record decode_payload(b, "v1") returns.
C15_UnknownFallback ==
    (\A c \in {<<118, 49>>, <<98, 97, 114, 97, 110, 105>>,
              <<115, 105, 109, 112, 108, 101>>} :
        Len(c) # Len(config_str[1])
        \/ \E i \in 1..Len(c) :
              config_str[1][i] # c[i] /\ config_str[1][i] + 32 # c[i])
    => /\ pc[1] # "raised"
       /\ pc[1] = "done" => result[1] = DecodeAlone(payload_bytes[1], S_v1)

\* the empty identifier has been decoded as the primary profile
C15_Witness ==
    /\ pc[1] = "done" /\ config_str[1] = <<>>
    /\ payload_bytes[1] = GoldenBytes
    /\ decoder_class[1] = "BaraniDecoder"
    /\ Len(reads[1]) = NumFields

\* C16: an alias written in another letter case selects the decoder class of
\* the lower-case alias and decodes every payload to the same record.
C16_CaseInsensitive ==
    /\ (pc[1] \in {"decode", "done"} /\ config_str[1] \in {S_V1, S_BARANI}) =>
          decoder_class[1] = "BaraniDecoder"
    /\ (pc[1] \in {"decode", "done"} /\ config_str[1] = S_Simple) =>
          decoder_class[1] = "ExampleSensorDecoder"
    /\ (pc[1] = "done" /\ config_str[1] = S_V1) =>
          result[1] = DecodeAlone(payload_bytes[1], S_v1)
    /\ (pc[1] = "done" /\ config_str[1] = S_BARANI) =>
          result[1] = DecodeAlone(payload_bytes[1], S_barani)
    /\ (pc[1] = "done" /\ config_str[1] = S_Simple) =>
          result[1] = DecodeAlone(payload_bytes[1], S_simple)

\* "SimpLE" has selected the example decoder and decoded [65, 50]
C16_Witness ==
    /\ pc[1] = "done" /\ config_str[1] = S_Simple
    /\ payload_bytes[1] = <<65, 50>>
    /\ decoder_class[1] = "ExampleSensorDecoder"
    /\ HasKey(result[1], "Temperature")

\* C18: the record decode_payload of libs/common/decoder.py returns for the
\* minimal profile on a payload of at least 2 bytes has Status "Simple Decoded".
C18_StatusSimpleDecoded ==
    (pc[1] = "done" /\ config_str[1] = S_simple /\ Len(payload_bytes[1]) >= 2) =>
        GetText(result[1], "Status") = "Simple Decoded"

\* the device id of the request is not in the devices table
Unregistered(dev_eui) == \A d \in Registered : d.dev_eui # dev_eui

\* the device is registered and the join gave it no decoder_config
UnknownConfig(dev_eui) == \E d \in Registered : d.dev_eui = dev_eui /\ d.config_null

\* C12: when the minimal-profile decoder signalled a too-short payload to
\* the uplink handler, the finished request has stored no sensor_data row and
\* its response is not status "ok".
C12_ShortUplinkRejected ==
    (up_pc = "done" /\ HasKey(up_decoded, "error")) =>
        (sensor_data = <<>> /\ up_response.status # "ok")

\* C17: a finished uplink request with a decodable payload, whose device is
\* not registered or is registered without a decoder_config, was decoded with
\* "v1" and was not answered with the 400 of a raised exception. (The row is
\* a dict: the rows of the SQLite fallback are left to their own failure.)
C17_DefaultProfile ==
    (/\ up_pc = "done"
     /\ ~Falsy(up_request.data) /\ ~b64decodeRaises(up_request.data)
     /\ up_device.kind # "Row"
     /\ Unregistered(up_request.device_id) \/ UnknownConfig(up_request.device_id)) =>
        (/\ up_config_str = [none |-> FALSE, str |-> S_v1]
         /\ up_decoded = DecodeAlone(b64decode(up_request.data), S_v1)
         /\ up_response.code # 400)

\* the failed MariaDB connects of this get_db_connection call
DbFailures == Cardinality({i \in 1..Len(db_log) : ~db_log[i]})

\* C20, in every state of a get_db_connection call: at most max_retries
\* MariaDB connects; a successful connect is the last one and returns 'mysql';
\* one sleep after every failed connect but the last of the three; SQLite is
\* tried, and 'sqlite' or None returned, only after three failures.
C20_Safe ==
    /\ Len(db_log) <= max_retries
    /\ \A i \in 1..(Len(db_log) - 1) : ~db_log[i]
    /\ (db_conn = "mysql") <=> (Len(db_log) > 0 /\ db_log[Len(db_log)])
    /\ (Len(db_log) > 0 /\ db_log[Len(db_log)]) => db_pc = "returned"
    /\ db_pc = "mysql" => (db_sleeps = DbFailures /\ db_conn = "")
    /\ db_pc = "sleep" => (db_sleeps = DbFailures - 1 /\ DbFailures < max_retries)
    /\ (db_pc = "sqlite" \/ db_conn \in {"sqlite", "None"}) =>
           (DbFailures = max_retries /\ db_sleeps = max_retries - 1)
    /\ (db_pc = "returned") <=> (db_conn \in {"mysql", "sqlite", "None"})
    /\ (db_pc = "returned" /\ db_conn = "mysql") => db_sleeps = DbFailures

LoginAnswered == login_request.username # ""

Raw(b, k) == RangeValue(b, DeclaredOffset(k), DeclaredWidth(k))

\* C21: for every 11-byte payload, with raw the unsigned integer in the
\* field's declared bit range, the primary profile yields Type = raw,
\* Battery*100 = 5*raw + 300, Temperature*10 = raw - 1000, T_min*10 =
\* Temperature*10 - raw, T_max*10 = Temperature*10 + raw, Humidity*10 = 2*raw,
\* Pressure*100 = 5*raw + 50000, Irradiation = 2*raw, Irr_max = Irradiation +
\* 2*raw, Rain = raw, Rain_min_time = raw.
C21_FieldFormulas ==
    (BaraniDone(1) /\ Len(payload_bytes[1]) = 11) =>
        LET b == payload_bytes[1]
            r == result[1]
        IN  /\ Get(r, "Type") = Raw(b, 1) * Unit
            /\ Get(r, "Battery") * 100 = (5 * Raw(b, 2) + 300) * Unit
            /\ Get(r, "Temperature") * 10 = (Raw(b, 3) - 1000) * Unit
            /\ Get(r, "T_min") * 10 = Get(r, "Temperature") * 10 - Raw(b, 4) * Unit
            /\ Get(r, "T_max") * 10 = Get(r, "Temperature") * 10 + Raw(b, 5) * Unit
            /\ Get(r, "Humidity") * 10 = 2 * Raw(b, 6) * Unit
            /\ Get(r, "Pressure") * 100 = (5 * Raw(b, 7) + 50000) * Unit
            /\ Get(r, "Irradiation") = 2 * Raw(b, 8) * Unit
            /\ Get(r, "Irr_max") = Get(r, "Irradiation") + 2 * Raw(b, 9) * Unit
            /\ Get(r, "Rain") = Raw(b, 10) * Unit
            /\ Get(r, "Rain_min_time") = Raw(b, 11) * Unit

\* an 11-byte payload with an odd battery raw value (a voltage with a 5 in
\* the second decimal digit) and non-zero T_min and T_max offsets was decoded
C21_Witness ==
    /\ BaraniDone(1) /\ Len(payload_bytes[1]) = 11
    /\ Raw(payload_bytes[1], 2) % 2 = 1
    /\ Raw(payload_bytes[1], 4) > 0 /\ Raw(payload_bytes[1], 5) > 0
    /\ Get(result[1], "Battery") * 100 = (5 * Raw(payload_bytes[1], 2) + 300) * Unit
    /\ Get(result[1], "T_min") < Get(result[1], "Temperature")

\* C22: a bitShift(width) call with pos + width <= total bits returns the sum
\* over i in 0..width-1 of bit(pos+i) * 2^(width-1-i), bit 0 being the most
\* significant bit of byte 0, for every start position, across byte
\* boundaries too, and advances pos by exactly width.
C22_MsbFirst ==
    \A t \in Threads : \A i \in 1..Len(reads[t]) :
        LET rd == reads[t][i]
        IN  rd.start + rd.bits <= 8 * Len(payload_bytes[t]) =>
                /\ ~rd.short
                /\ rd.num = RangeValue(payload_bytes[t], rd.start, rd.bits)
                /\ rd.after = rd.start + rd.bits

\* a 14-bit read that started inside a byte and crossed two byte boundaries
\* has returned a value with its highest and lowest bit set
C22_Witness ==
    \E i \in 1..Len(reads[1]) :
        LET rd == reads[1][i]
        IN  /\ rd.bits = 14 /\ rd.start % 8 # 0 /\ ~rd.short
            /\ (rd.start + rd.bits - 1) \div 8 = (rd.start \div 8) + 2
            /\ rd.num >= Pow2(13) /\ rd.num % 2 = 1
            /\ rd.after = rd.start + 14

\* number * 10^precision lies exactly halfway between two integers
Halfway(number, precision) == (2 * number * Pow10(precision)) % (2 * Unit) = Unit

\* C23: whenever number * 10^precision is exactly k + 1/2, precisionRound
\* returns the neighbour farther from zero: (k + 1) / 10^precision for a
\* positive number, k / 10^precision for a negative one.
C23_HalfAwayFromZero ==
    (rounding.applied /\ Halfway(rounding.number, rounding.precision)) =>
        LET factor == Pow10(rounding.precision)
            k == (rounding.number * factor) \div Unit
        IN  rounding.result * factor =
                (IF rounding.number > 0 THEN k + 1 ELSE k) * Unit

\* the step is one of call t
StepOf(t) == pc'[t] # pc[t] \/ reads'[t] # reads[t]

\* C24: no step of a decode_payload call changes the table
\* DecoderFactory._decoders or the payload bytes of a running call, and the
\* only cursor and bit string a step writes are those of the instance
\* constructed for the call that takes it.
C24_ReadOnlySharing ==
    /\ [][decoders' = decoders]_vars
    /\ [][\A t \in Threads :
            pc[t] \in {"called", "decode"} => payload_bytes'[t] = payload_bytes[t]]_vars
    /\ [][\A t \in Threads : StepOf(t) =>
            \A u \in Threads \ {t} :
                /\ pos'[u] = pos[u] /\ bindata'[u] = bindata[u]
                /\ payload_bytes'[u] = payload_bytes[u]
                /\ reads'[u] = reads[u] /\ result'[u] = result[u]]_vars

\* two interleaved calls have returned, one of them looked up an identifier
\* that is not in the table; the table is as it was created and each instance
\* holds the bits of its own payload
C24_Witness ==
    /\ pc[1] = "done" /\ pc[2] = "done"
    /\ overlapped[1] /\ overlapped[2]
    /\ config_str[1] = S_unknown /\ config_str[2] = S_v1
    /\ decoders = DecodersTable
    /\ bindata[1] = data2bits(payload_bytes[1])
    /\ bindata[2] = data2bits(payload_bytes[2])
    /\ bindata[1] # bindata[2]

\* what Decoder(b) of app.py returns when it runs alone
RECURSIVE app_RunBitShifts(_, _, _)
app_RunBitShifts(bd, p, k) ==
    IF k > Len(app_Widths) THEN <<>>
    ELSE <<app_bitShiftNum(p, app_Widths[k], bd)>>
         \o app_RunBitShifts(bd, app_bitShiftPos(p, app_Widths[k], bd), k + 1)

LegacyAlone(b) == app_Decoded(app_RunBitShifts(app_data2bits(b), 0, 1))

\* C25: when invocations of Decoder(payload) of services/uplink/src/app.py
\* run with their bitShift steps interleaved, each invocation returns the
\* record its own payload yields when decoded alone.
C25_LegacyInterleaved ==
    \A t \in Threads :
        legacy_pc[t] = "done" => legacy_result[t] = LegacyAlone(legacy_payload[t])

\* C26: called one after the other, Decoder(payload) of app.py returns for
\* every payload of every length the record BaraniDecoder(payload).decode()
\* of libs/common/decoder.py returns, whatever payload was decoded before.
C26_CopyEquivalence ==
    legacy_pc[1] = "done" =>
        legacy_result[1] = DecodeAlone(legacy_payload[1], S_v1)

\* Decoder has returned the record of a 3-byte payload, with pos at 24, right
\* after an invocation on an 11-byte payload that had left pos at 88
C26_Witness ==
    /\ legacy_pc[1] = "done"
    /\ legacy_prev # <<>> /\ Len(legacy_prev[1]) = 11
    /\ Len(legacy_payload[1]) = 3
    /\ app_pos = 24
    /\ Len(legacy_result[1]) = 11
    /\ legacy_result[1] = DecodeAlone(legacy_payload[1], S_v1)

\* v clamped to [0, 2^w - 1]
Clamped(v, w) == IF v < 0 THEN 0 ELSE IF v > Pow2(w) - 1 THEN Pow2(w) - 1 ELSE v

\* C27: add_value with widths 2,5,11,6,6,9,14,10,9,8,8 on eleven integers
\* followed by get_bytes gives exactly 11 bytes without padding bits, and the
\* eleven raw values BaraniDecoder extracts from them are the integers
\* clamped to [0, 2^width - 1].
C27_RoundTrip ==
    /\ enc_pc = "done" => (Len(enc_bytes) = 11 /\ Len(enc_bits) = 88)
    /\ enc_pc \in {"add", "bytes"} =>
           Len(enc_bits) = Sum(SubSeq(<<2, 5, 11, 6, 6, 9, 14, 10, 9, 8, 8>>, 1, enc_k))
    /\ (enc_pc = "done" /\ pc[1] \in {"decode", "done"}) =>
           \A k \in 1..Len(reads[1]) :
               /\ ~reads[1][k].short
               /\ reads[1][k].num = Clamped(enc_values[k], DeclaredWidth(k))
    /\ (enc_pc = "done" /\ pc[1] = "done") => Len(reads[1]) = 11

\* a tuple with a negative value, values above the maximum and values inside
\* the range was encoded to 11 bytes and decoded back to the clamped values
C27_Witness ==
    /\ enc_pc = "done" /\ BaraniDone(1)
    /\ payload_bytes[1] = enc_bytes /\ Len(enc_bytes) = 11
    /\ enc_values[1] < 0 /\ reads[1][1].num = 0
    /\ enc_values[3] > 2047 /\ reads[1][3].num = 2047
    /\ \A k \in 1..11 : reads[1][k].num = Clamped(enc_values[k], DeclaredWidth(k))

\* the first n bytes of payload b
FirstBytes(b, n) == SubSeq(b, 1, n)

\* C28: for every payload longer than 11 bytes the primary profile returns
\* the record of its first 11 bytes, and for every payload longer than 2
\* bytes the minimal profile returns the record of its first 2 bytes.
C28_TrailingIgnored ==
    /\ (BaraniDone(1) /\ Len(payload_bytes[1]) > 11) =>
           result[1] = DecodeAlone(FirstBytes(payload_bytes[1], 11), config_str[1])
    /\ (pc[1] = "done" /\ decoder_class[1] = "ExampleSensorDecoder"
            /\ Len(payload_bytes[1]) > 2) =>
           result[1] = DecodeAlone(FirstBytes(payload_bytes[1], 2), config_str[1])

\* a payload whose bytes after the eleventh are not zero was decoded by the
\* primary profile to the record of its first eleven bytes
C28_Witness ==
    /\ BaraniDone(1) /\ Len(payload_bytes[1]) > 11
    /\ payload_bytes[1][12] # 0
    /\ pos[1] = 88 /\ Len(bindata[1]) > 88
    /\ result[1] = DecodeAlone(FirstBytes(payload_bytes[1], 11), S_v1)

\* C29: a POST whose JSON has no 'data' field or an empty one is answered
\* with 400 and status "error"; no uplinks row and no sensor_data row is
\* written for it, and no device lookup (no database connection) and no
\* decode is made.
C29_NoPayload ==
    (up_pc # "idle" /\ up_request.data.kind \in {"missing", "empty"}) =>
        /\ up_pc \in {"received", "done"}
        /\ up_pc = "done" => (up_response.code = 400 /\ up_response.status = "error")
        /\ uplinks = <<>> /\ sensor_data = <<>>
        /\ db_pc = "idle" /\ db_log = <<>>
        /\ up_device = NoDevice /\ up_config_str = NoConfig /\ up_decoded = <<>>

\* a request with an empty 'data' field was answered 400 without any
\* database connection attempt
C29_Witness ==
    /\ up_pc = "done" /\ up_request.data.kind = "empty"
    /\ up_request.device_id = "eui_v1"
    /\ up_response.code = 400 /\ up_response.status = "error"
    /\ db_pc = "idle" /\ uplinks = <<>> /\ sensor_data = <<>>

\* the request has been decoded and both saves have been attempted
UplinkStored == up_pc = "done" /\ up_decoded # <<>>

\* C30: for a POST that decodes, the uplinks row is written before the
\* sensor_data row; the response is 200 "ok" exactly when save_sensor_data
\* stored its row and 500 "error" otherwise, whatever save_uplink did; and a
\* failed save_sensor_data leaves the uplinks row in place.
C30_StorageOrder ==
    /\ [](UplinkStored =>
            /\ (Len(sensor_data) = 1) <=>
                   (up_response.code = 200 /\ up_response.status = "ok")
            /\ (Len(sensor_data) = 0) <=>
                   (up_response.code = 500 /\ up_response.status = "error")
            /\ Len(sensor_data) <= 1 /\ Len(uplinks) <= 1)
    /\ [][uplinks' # uplinks =>
            (up_pc = "save_uplink" /\ sensor_data = <<>> /\ sensor_data' = <<>>)]_vars
    /\ [][sensor_data' # sensor_data =>
            (up_pc = "save_data" /\ up_pc' = "done" /\ uplinks' = uplinks)]_vars
    /\ [][up_pc = "save_data" => uplinks' = uplinks]_vars

\* save_sensor_data failed after save_uplink had stored its row: response
\* 500 "error", the uplinks row still there
C30_Witness ==
    /\ UplinkStored
    /\ Len(uplinks) = 1 /\ sensor_data = <<>>
    /\ up_response.code = 500 /\ up_response.status = "error"
    /\ uplinks[1].payload_raw = up_request.data

====
